---- MODULE Spec2Model ----
(***************************************************************************)
(* State-machine model of the moderation bot (src/bot.py, SQLite backend;  *)
(* src/db.py, document-store backend).  Every handler is cut at its await  *)
(* points: the code between two awaits is one atomic step of the asyncio   *)
(* event loop, and a platform call (delete, send, restrict, edit, answer)  *)
(* completes in a later step with a nondeterministic outcome.              *)
(***************************************************************************)
EXTENDS Integers, Sequences, FiniteSets, TLC

VARIABLES
    now,            \* time.time(), in whole seconds
    WARN_LIMIT,     \* bot.py:25, the process-wide warn limit
    warns,          \* table warns: (chat_id, user_id) -> count
    filters,        \* table filters: sequence of <<chat_id, word>> rows
    settings,       \* table settings: chat_id -> row
    logs,           \* table logs: sequence of audit rows
    _flood_cache,   \* bot.py:149, (chat_id, user_id) -> timestamps
    perms,          \* platform: (chat_id, user_id) -> permissions of the member
    challenges,     \* platform: the challenge messages sent on joins
    tasks,          \* handler invocations, in dispatch order
    floodCalls,     \* history: every check_flood call, per key, with its time
    probe,          \* the last direct check_flood call and what it returned
    ticks           \* history: how many times the clock has advanced

vars == <<now, WARN_LIMIT, warns, filters, settings, logs, _flood_cache,
          perms, challenges, tasks, floodCalls, probe, ticks>>

(***************************************************************************)
(* Bounds of the model.                                                    *)
(***************************************************************************)
MaxEvents == 3       \* updates dispatched in one behaviour
MaxTicks == 4        \* clock advances in one behaviour
MaxCalls == 6        \* direct check_flood calls for one key in one behaviour
MaxLimit == 3        \* largest configured warn limit
MaxMessages == 2     \* updates dispatched in one behaviour of FilterSpec

Chats == {1, 2}
Users == {1, 2, 3}
ADMIN_IDS == {1}
Bots == {4}
Keys == Chats \X (Users \cup Bots)

(***************************************************************************)
(* Partial functions (tables keyed by a primary key).                      *)
(***************************************************************************)
Empty == [x \in {} |-> 0]
Put(f, k, v) == [x \in (DOMAIN f) \cup {k} |-> IF x = k THEN v ELSE f[x]]
Drop(f, k) == [x \in (DOMAIN f) \ {k} |-> f[x]]

(***************************************************************************)
(* Text.  A text is a sequence of characters.                              *)
(***************************************************************************)
UpperAlphabet == <<"A","B","C","D","E","F","G","H","I","J","K","L","M",
                   "N","O","P","Q","R","S","T","U","V","W","X","Y","Z">>
LowerAlphabet == <<"a","b","c","d","e","f","g","h","i","j","k","l","m",
                   "n","o","p","q","r","s","t","u","v","w","x","y","z">>
Digits == {"0","1","2","3","4","5","6","7","8","9"}
Range(s) == {s[i] : i \in DOMAIN s}
WordChars == Range(UpperAlphabet) \cup Range(LowerAlphabet) \cup Digits \cup {"_"}
Whitespace == {" "}

\* str.isupper() of one character
isupper(c) == c \in Range(UpperAlphabet)

LowerChar(c) ==
    IF isupper(c)
    THEN LowerAlphabet[CHOOSE i \in DOMAIN UpperAlphabet : UpperAlphabet[i] = c]
    ELSE c

\* str.lower()
lower(s) == [i \in DOMAIN s |-> LowerChar(s[i])]

\* Python's  w in text  for strings: w is a contiguous substring of text
Contains(text, w) ==
    \E i \in 1..(Len(text) - Len(w) + 1) : SubSeq(text, i, i + Len(w) - 1) = w

\* the pattern p, compared case-insensitively, starts at position i of s and
\* is followed by at least one non-whitespace character (p\S+)
PrefixThenNonSpace(s, i, p) ==
    /\ i + Len(p) <= Len(s)
    /\ \A j \in 1..Len(p) : LowerChar(s[i + j - 1]) = p[j]
    /\ s[i + Len(p)] \notin Whitespace

\* \b before position i, where s[i] is a word character
WordBoundaryBefore(s, i) == i = 1 \/ s[i - 1] \notin WordChars

\* URL_REGEX.search(s): (https?://\S+|\bwww\.\S+), re.IGNORECASE
URL_REGEX(s) ==
    \E i \in DOMAIN s :
        \/ PrefixThenNonSpace(s, i, <<"h","t","t","p",":","/","/">>)
        \/ PrefixThenNonSpace(s, i, <<"h","t","t","p","s",":","/","/">>)
        \/ /\ WordBoundaryBefore(s, i)
           /\ PrefixThenNonSpace(s, i, <<"w","w","w",".">>)

DEFAULT_BADWORDS ==
    << <<"s","p","a","m","w","o","r","d","1">>, <<"s","c","a","m">>,
       <<"p","o","r","n">>, <<"s","e","x">>,
       <<"c","a","s","i","n","o">>, <<"f","a","k","e">> >>

\* sum(1 for c in text if c.isupper())
UpperCount(s) == Cardinality({i \in DOMAIN s : isupper(s[i])})

\* sample message texts
TextHi == <<"h","i"," ","a","l","l">>
TextUrl == <<"s","e","e"," ","h","t","t","p",":","/","/","t",".","m","e">>
TextWww == <<"W","W","W",".","x",".","i","o">>
TextScam == <<"S","c","a","m">>
TextUrlScam == <<"S","C","A","M"," ","h","t","t","p","s",":","/","/","t",".","m","e">>
TextUrlSpam == <<"s","p","a","m"," ","w","w","w",".","x",".","i","o">>
WordSpam == <<"s","p","a","m">>
NoText == << >>

(***************************************************************************)
(* Storage helpers (bot.py:81-130, db.py:21-72).                           *)
(***************************************************************************)
\* get_warn_count whose query never finds the row
get_warn_count_no_row(chat_id, user_id) == 0

get_warn_count(chat_id, user_id) ==
    IF <<chat_id, user_id>> \in DOMAIN warns THEN warns[<<chat_id, user_id>>] ELSE 0

\* set_warn_count that inserts a missing row and never updates one
set_warn_count_insert_only(chat_id, user_id, count) ==
    IF <<chat_id, user_id>> \in DOMAIN warns THEN warns
    ELSE Put(warns, <<chat_id, user_id>>, count)

\* the value of the warns table after the call
set_warn_count(chat_id, user_id, count) == Put(warns, <<chat_id, user_id>>, count)

\* reset_warn that deletes nothing
reset_warn_noop(chat_id, user_id) == warns

\* reset_warn that keeps the row and stores a count of 0 in it
reset_warn_zero_row(chat_id, user_id) == Put(warns, <<chat_id, user_id>>, 0)

reset_warn(chat_id, user_id) == Drop(warns, <<chat_id, user_id>>)

\* INSERT INTO filters: a new row, whatever rows exist
add_filter(chat_id, word) == Append(filters, <<chat_id, lower(word)>>)

\* DELETE FROM filters WHERE chat_id=? AND word=?: every matching row
remove_filter(chat_id, word) ==
    SelectSeq(filters, LAMBDA r : r # <<chat_id, lower(word)>>)

RowWord(r) == r[2]
Words(rows) == [i \in DOMAIN rows |-> RowWord(rows[i])]
get_filters(chat_id) == Words(SelectSeq(filters, LAMBDA r : r[1] = chat_id))

\* CREATE TABLE settings: the column defaults of a new row
DefaultSettings == [antispam |-> 1, block_links |-> 1, flood_limit |-> 5]

\* the settings table after ensure_settings(chat_id)
ensure_settings(chat_id) ==
    IF chat_id \in DOMAIN settings THEN settings ELSE Put(settings, chat_id, DefaultSettings)

\* get_setting reads the row ensure_settings has just made sure of
get_setting(chat_id) == ensure_settings(chat_id)[chat_id]

\* a reason: a tag and, for a banned word, the word
Reason(tag, word) == [tag |-> tag, word |-> word]
NoReason == Reason("", NoText)

\* the logs table after log_action(chat_id, user_id, action, reason); by is
\* the handler invocation that wrote the row (history)
log_action(chat_id, user_id, action, reason, by) ==
    Append(logs, [chat_id |-> chat_id, user_id |-> user_id, action |-> action,
                  reason |-> reason, ts |-> now, by |-> by])

(***************************************************************************)
(* Rate tracker (bot.py:149-159).                                          *)
(***************************************************************************)
FLOOD_WINDOW == 7

Hits(key) == IF key \in DOMAIN _flood_cache THEN _flood_cache[key] ELSE << >>

\* check_flood's hits without the pruning of old entries
FloodHits_no_prune(key, t) == Append(Hits(key), t)

\* hits after the pruning and the append of check_flood, called at time t
FloodHits(key, t) ==
    Append(SelectSeq(Hits(key), LAMBDA h : t - h < FLOOD_WINDOW), t)

\* check_flood returning true at the limit already (>= for >)
check_flood_at_limit(chat_id, user_id, limit) ==
    LET key == <<chat_id, user_id>>
        hits == FloodHits(key, now)
    IN  [cache |-> Put(_flood_cache, key, hits), ret |-> Len(hits) >= limit]

\* check_flood: the cache it leaves and the value it returns
check_flood(chat_id, user_id, limit) ==
    LET key == <<chat_id, user_id>>
        hits == FloodHits(key, now)
    IN  [cache |-> Put(_flood_cache, key, hits), ret |-> Len(hits) > limit]

\* history of the calls of check_flood
RecordCall(chat_id, user_id) ==
    LET key == <<chat_id, user_id>>
    IN  Put(floodCalls, key,
            Append(IF key \in DOMAIN floodCalls THEN floodCalls[key] ELSE << >>, now))

(***************************************************************************)
(* Platform state.                                                         *)
(***************************************************************************)
MUTE_SECONDS == 3600

\* ChatPermissions with the four capabilities granted
FullPermissions ==
    [can_send_messages |-> TRUE, can_send_media_messages |-> TRUE,
     can_add_web_page_previews |-> TRUE, can_send_other_messages |-> TRUE,
     until_date |-> 0, cause |-> "none"]

\* a grant of can_send_messages alone
VerifiedPermissions_send_only ==
    [can_send_messages |-> TRUE, can_send_media_messages |-> FALSE,
     can_add_web_page_previews |-> FALSE, can_send_other_messages |-> FALSE,
     until_date |-> 0, cause |-> "none"]

\* bot.py:217-218: the permissions captcha_click grants
VerifiedPermissions == FullPermissions

\* ChatPermissions(can_send_messages=False) until until_date (0: no expiry)
Restricted(until_date, cause) ==
    [can_send_messages |-> FALSE, can_send_media_messages |-> FALSE,
     can_add_web_page_previews |-> FALSE, can_send_other_messages |-> FALSE,
     until_date |-> until_date, cause |-> cause]

(***************************************************************************)
(* Handler invocations.                                                    *)
(***************************************************************************)
NewTask(kind, chat_id, user_id) ==
    [kind |-> kind, chat |-> chat_id, user |-> user_id, target |-> 0,
     pc |-> "done", ts |-> now, text |-> NoText, viol |-> NoReason,
     reason |-> NoReason, count |-> 0, incremented |-> FALSE, epoch |-> 0,
     deleted |-> FALSE, muteCalled |-> FALSE, muteOk |-> FALSE,
     muteUntil |-> 0, didReset |-> FALSE, ch |-> 0, limit |-> 0,
     reply |-> ""]

Finished(t) == t.pc \in {"done", "failed"}
Idle == \A i \in DOMAIN tasks : Finished(tasks[i])

\* history: how many times reset_warn has run for the key
Resets(key) ==
    Cardinality({j \in DOMAIN tasks :
                    tasks[j].didReset /\ <<tasks[j].chat, tasks[j].target>> = key})

Init ==
    /\ now = 0
    /\ WARN_LIMIT = 3
    /\ warns = Empty
    /\ filters = << >>
    /\ settings = Empty
    /\ logs = << >>
    /\ _flood_cache = Empty
    /\ perms = [k \in Keys |-> FullPermissions]
    /\ challenges = << >>
    /\ tasks = << >>
    /\ floodCalls = Empty
    /\ probe = [key |-> <<0, 0>>, t |-> 0, limit |-> 0, ret |-> FALSE, n |-> 0]
    /\ ticks = 0

(***************************************************************************)
(* Escalation: warn_user (bot.py:288-310).                                 *)
(***************************************************************************)
\* bot.py:293-294: the warns table after the read, the addition and the write
WarnIncrement(chat_id, user_id) ==
    set_warn_count(chat_id, user_id, get_warn_count(chat_id, user_id) + 1)

\* bot.py:291-296: the invocation t up to its first await (the warning send)
warn_user_begin(t, chat_id, user_id, reason) ==
    [t EXCEPT !.target = user_id, !.reason = reason,
              !.count = get_warn_count(chat_id, user_id) + 1,
              !.incremented = TRUE, !.epoch = Resets(<<chat_id, user_id>>),
              !.pc = "send"]

\* the escalation test firing only past the limit (> for >=)
AtLimit_past(count, limit) == count > limit

\* bot.py:300: the escalation test
AtLimit(count, limit) == count >= limit

\* bot.py:296-305: the warning send returns (or raises, swallowed); the warn
\* row is logged; at the limit the restrict call is issued and awaited
WarnSent(i) ==
    /\ tasks[i].pc = "send"
    /\ \E ok \in BOOLEAN :
        LET t == tasks[i]
        IN  /\ logs' = log_action(t.chat, t.target, "warn", t.reason, i)
            /\ tasks' = [tasks EXCEPT ![i] =
                    IF AtLimit(t.count, WARN_LIMIT)
                    THEN [t EXCEPT !.pc = "restrict", !.muteCalled = TRUE,
                                   !.muteUntil = now + MUTE_SECONDS,
                                   !.limit = WARN_LIMIT]
                    ELSE [t EXCEPT !.pc = "done", !.limit = WARN_LIMIT]]
    /\ UNCHANGED <<now, ticks, WARN_LIMIT, warns, filters, settings, _flood_cache,
                   perms, challenges, floodCalls, probe>>

\* bot.py:303-310: the restrict call returns, and the announcement is awaited;
\* or it raises, which is logged, and the ledger is reset
MuteRestricted(i) ==
    /\ tasks[i].pc = "restrict"
    /\ \E ok \in BOOLEAN :
        LET t == tasks[i]
        IN  IF ok
            THEN /\ perms' = [perms EXCEPT ![<<t.chat, t.target>>] =
                                  Restricted(t.muteUntil, "mute")]
                 /\ tasks' = [tasks EXCEPT ![i] =
                                  [t EXCEPT !.pc = "announce", !.muteOk = TRUE]]
                 /\ UNCHANGED warns
            ELSE /\ warns' = reset_warn(t.chat, t.target)
                 /\ tasks' = [tasks EXCEPT ![i] =
                                  [t EXCEPT !.pc = "done", !.didReset = TRUE]]
                 /\ UNCHANGED perms
    /\ UNCHANGED <<now, ticks, WARN_LIMIT, filters, settings, logs, _flood_cache,
                   challenges, floodCalls, probe>>

\* bot.py:306-310: the announcement returns and the mute row is logged, or it
\* raises; either way the ledger is reset
MuteAnnounced(i) ==
    /\ tasks[i].pc = "announce"
    /\ \E ok \in BOOLEAN :
        LET t == tasks[i]
        IN  /\ logs' = IF ok
                       THEN log_action(t.chat, t.target, "mute",
                                       Reason("warn_limit_reached", NoText), i)
                       ELSE logs
            /\ warns' = reset_warn(t.chat, t.target)
            /\ tasks' = [tasks EXCEPT ![i] =
                             [t EXCEPT !.pc = "done", !.didReset = TRUE]]
    /\ UNCHANGED <<now, ticks, WARN_LIMIT, filters, settings, _flood_cache, perms,
                   challenges, floodCalls, probe>>

(***************************************************************************)
(* Moderation pipeline: message_filter (bot.py:229-286).                   *)
(***************************************************************************)
\* bot.py:267: get_filters(chat_id) or DEFAULT_BADWORDS
EffectiveFilters(chat_id) ==
    IF get_filters(chat_id) # << >> THEN get_filters(chat_id) ELSE DEFAULT_BADWORDS

\* bot.py:268-269: index of the first word of the list found in text, 0 if none
FirstBadword(words, text) ==
    LET hit == {i \in DOMAIN words : words[i] # NoText /\ Contains(text, words[i])}
    IN  IF hit = {} THEN 0 ELSE CHOOSE i \in hit : \A j \in hit : i <= j

\* the link rule without the admin exemption
LinkRule_no_exemption(block_links, text, user_id) ==
    block_links # 0 /\ URL_REGEX(text)

\* bot.py:255-257: the link rule with its admin exemption
LinkRule(block_links, text, user_id) ==
    block_links # 0 /\ URL_REGEX(text) /\ user_id \notin ADMIN_IDS

\* bot.py:279: the caps rule, on the text line 243 has lowercased
CapsRule(text) == text # NoText /\ UpperCount(text) > 25 /\ Len(text) < 400

\* the rules with the flood check tried after the content rules
Verdict_flood_last(chat_id, user_id, raw, flooded) ==
    LET text == lower(raw)
        words == EffectiveFilters(chat_id)
        b == FirstBadword(words, text)
    IN  IF LinkRule(get_setting(chat_id).block_links, text, user_id)
        THEN Reason("link", NoText)
        ELSE IF b # 0 THEN Reason("badword", words[b])
        ELSE IF CapsRule(text) THEN Reason("caps spam", NoText)
        ELSE IF flooded THEN Reason("flood", NoText)
        ELSE NoReason

\* the rules with the banned-word rule tried before the link rule
Verdict_words_first(chat_id, user_id, raw, flooded) ==
    LET text == lower(raw)
        words == EffectiveFilters(chat_id)
        b == FirstBadword(words, text)
    IN  IF flooded THEN Reason("flood", NoText)
        ELSE IF b # 0 THEN Reason("badword", words[b])
        ELSE IF LinkRule(get_setting(chat_id).block_links, text, user_id)
             THEN Reason("link", NoText)
        ELSE IF CapsRule(text) THEN Reason("caps spam", NoText)
        ELSE NoReason

\* bot.py:243-286: the first rule that matches, in the order of the code
Verdict(chat_id, user_id, raw, flooded) ==
    LET text == lower(raw)
        words == EffectiveFilters(chat_id)
        b == FirstBadword(words, text)
    IN  IF flooded THEN Reason("flood", NoText)
        ELSE IF LinkRule(get_setting(chat_id).block_links, text, user_id)
             THEN Reason("link", NoText)
        ELSE IF b # 0 THEN Reason("badword", words[b])
        ELSE IF CapsRule(text) THEN Reason("caps spam", NoText)
        ELSE NoReason

\* the reason message_filter hands to warn_user for a violation
WarnReason(viol) ==
    CASE viol.tag = "flood" -> Reason("Flooding", NoText)
      [] viol.tag = "link" -> Reason("Posting links", NoText)
      [] viol.tag = "badword" -> Reason("Use of banned word", viol.word)
      [] OTHER -> Reason("Caps spam", NoText)

\* bot.py:229-286 up to the first await: an update with a message (or, msg
\* FALSE, without one) from user_id in chat_id with text raw
message_filter(msg, chat_id, user_id, raw) ==
    /\ UNCHANGED <<now, ticks, WARN_LIMIT, warns, filters, logs, perms, challenges, probe>>
    /\ LET t == [NewTask("message", chat_id, user_id) EXCEPT !.text = raw]
       IN
        IF ~msg \/ user_id \in Bots
        THEN /\ tasks' = Append(tasks, t)
             /\ UNCHANGED <<settings, _flood_cache, floodCalls>>
        ELSE LET f == check_flood(chat_id, user_id, get_setting(chat_id).flood_limit)
                 v == Verdict(chat_id, user_id, raw, f.ret)
             IN  /\ settings' = ensure_settings(chat_id)
                 /\ _flood_cache' = f.cache
                 /\ floodCalls' = RecordCall(chat_id, user_id)
                 /\ tasks' = Append(tasks,
                        [t EXCEPT !.viol = v,
                                  !.pc = IF v = NoReason THEN "done" ELSE "delete"])

\* the delete of the offending message returns or raises (swallowed); the
\* deletion is logged and warn_user runs up to its first await
MessageDeleted(i) ==
    /\ tasks[i].pc = "delete"
    /\ \E ok \in BOOLEAN :
        LET t == tasks[i]
        IN  /\ logs' = log_action(t.chat, t.user, "deleted", t.viol, i)
            /\ warns' = WarnIncrement(t.chat, t.user)
            /\ tasks' = [tasks EXCEPT ![i] =
                    warn_user_begin([t EXCEPT !.deleted = ok], t.chat, t.user,
                                    WarnReason(t.viol))]
    /\ UNCHANGED <<now, ticks, WARN_LIMIT, filters, settings, _flood_cache, perms,
                   challenges, floodCalls, probe>>

(***************************************************************************)
(* Administrative commands (bot.py:133-142, 313-388).                      *)
(***************************************************************************)
\* the decorator letting every user through
admin_only_anyone(user_id) == TRUE

\* bot.py:137
admin_only(user_id) == user_id \in ADMIN_IDS

\* a handler whose remaining work is one awaited reply_text
Replying(kind, chat_id, user_id) ==
    [NewTask(kind, chat_id, user_id) EXCEPT !.pc = "reply"]

\* the text of the reply the invocation awaits
Notice(t, text) == [t EXCEPT !.reply = text]

\* bot.py:140: the reply of the decorator, else the reply of the command
Rejection(user_id, text) == IF admin_only(user_id) THEN text ELSE "unauthorized"

\* bot.py:343-359.  src: "reply" (a reply to target's message), "id" (the
\* argument parses to target), "bad" (it does not parse), "none" (neither)
warn_cmd(chat_id, user_id, src, target, reason) ==
    /\ IF admin_only(user_id) /\ src \in {"reply", "id"}
       THEN /\ warns' = WarnIncrement(chat_id, target)
            /\ tasks' = Append(tasks,
                   warn_user_begin(NewTask("warn", chat_id, user_id),
                                   chat_id, target, reason))
       ELSE /\ tasks' = Append(tasks,
                   Notice(Replying("warn", chat_id, user_id),
                          Rejection(user_id, IF src = "none" THEN "usage" ELSE "no_user_id")))
            /\ UNCHANGED warns
    /\ UNCHANGED <<now, ticks, WARN_LIMIT, filters, settings, logs, _flood_cache,
                   perms, challenges, floodCalls, probe>>

\* bot.py:361-376
unwarn_cmd(chat_id, user_id, src, target) ==
    /\ IF admin_only(user_id) /\ src \in {"reply", "id"}
       THEN /\ warns' = reset_warn(chat_id, target)
            /\ tasks' = Append(tasks,
                   [Replying("unwarn", chat_id, user_id) EXCEPT
                        !.target = target, !.didReset = TRUE, !.reply = "reset"])
       ELSE /\ tasks' = Append(tasks,
                   Notice(Replying("unwarn", chat_id, user_id),
                          Rejection(user_id, IF src = "none" THEN "usage" ELSE "no_user_id")))
            /\ UNCHANGED warns
    /\ UNCHANGED <<now, ticks, WARN_LIMIT, filters, settings, logs, _flood_cache,
                   perms, challenges, floodCalls, probe>>

\* bot.py:378-388.  arg: "int" (the argument parses to n), "bad", "none"
set_warn_limit_cmd(chat_id, user_id, arg, n) ==
    /\ IF admin_only(user_id) /\ arg = "int"
       THEN /\ WARN_LIMIT' = n
            /\ tasks' = Append(tasks,
                   [NewTask("setwarnlimit", chat_id, user_id) EXCEPT
                        !.pc = "reply_try", !.reply = "limit_set"])
       ELSE /\ tasks' = Append(tasks,
                   Notice(Replying("setwarnlimit", chat_id, user_id),
                          Rejection(user_id, IF arg = "none" THEN "usage" ELSE "invalid")))
            /\ UNCHANGED WARN_LIMIT
    /\ UNCHANGED <<now, ticks, warns, filters, settings, logs, _flood_cache,
                   perms, challenges, floodCalls, probe>>

\* bot.py:313-321.  word: the joined arguments, NoText when there are none
addfilter_cmd(chat_id, user_id, word) ==
    /\ filters' = IF admin_only(user_id) /\ word # NoText
                  THEN add_filter(chat_id, lower(word))
                  ELSE filters
    /\ tasks' = Append(tasks,
           Notice(Replying("addfilter", chat_id, user_id),
                  Rejection(user_id, IF word = NoText THEN "usage" ELSE "added")))
    /\ UNCHANGED <<now, ticks, WARN_LIMIT, warns, settings, logs, _flood_cache,
                   perms, challenges, floodCalls, probe>>

\* bot.py:323-331
delfilter_cmd(chat_id, user_id, word) ==
    /\ filters' = IF admin_only(user_id) /\ word # NoText
                  THEN remove_filter(chat_id, lower(word))
                  ELSE filters
    /\ tasks' = Append(tasks,
           Notice(Replying("delfilter", chat_id, user_id),
                  Rejection(user_id, IF word = NoText THEN "usage" ELSE "removed")))
    /\ UNCHANGED <<now, ticks, WARN_LIMIT, warns, settings, logs, _flood_cache,
                   perms, challenges, floodCalls, probe>>

\* bot.py:333-340
listfilters_cmd(chat_id, user_id) ==
    /\ tasks' = Append(tasks,
           Notice(Replying("listfilters", chat_id, user_id),
                  Rejection(user_id, IF get_filters(chat_id) = << >>
                                     THEN "no_filters" ELSE "filters")))
    /\ UNCHANGED <<now, ticks, WARN_LIMIT, warns, filters, settings, logs,
                   _flood_cache, perms, challenges, floodCalls, probe>>

\* an awaited reply_text returns, or raises out of the handler
Replied(i) ==
    /\ tasks[i].pc = "reply"
    /\ \E ok \in BOOLEAN :
        tasks' = [tasks EXCEPT ![i].pc = IF ok THEN "done" ELSE "failed"]
    /\ UNCHANGED <<now, ticks, WARN_LIMIT, warns, filters, settings, logs,
                   _flood_cache, perms, challenges, floodCalls, probe>>

\* bot.py:386-388: the reply inside the try returns, or raises into the
\* except branch, which replies "Invalid number."
ReplyTried(i) ==
    /\ tasks[i].pc = "reply_try"
    /\ \E ok \in BOOLEAN :
        tasks' = [tasks EXCEPT ![i] =
                      IF ok THEN [@ EXCEPT !.pc = "done"]
                      ELSE [@ EXCEPT !.pc = "reply", !.reply = "invalid"]]
    /\ UNCHANGED <<now, ticks, WARN_LIMIT, warns, filters, settings, logs,
                   _flood_cache, perms, challenges, floodCalls, probe>>

(***************************************************************************)
(* Join verification (bot.py:182-220).                                     *)
(***************************************************************************)
Statuses == {"left", "kicked", "member", "restricted"}

\* bot.py:187: a join
IsJoin(old, new) == old \in {"left", "kicked"} /\ new = "member"

\* bot.py:182-196, up to the awaited restrict call
chat_member_handler(chat_id, user_id, old, new) ==
    /\ tasks' = Append(tasks,
           [NewTask("join", chat_id, user_id) EXCEPT
                !.target = user_id,
                !.pc = IF IsJoin(old, new) THEN "join_restrict" ELSE "done"])
    /\ UNCHANGED <<now, ticks, WARN_LIMIT, warns, filters, settings, logs,
                   _flood_cache, perms, challenges, floodCalls, probe>>

\* bot.py:191-201: the restrict call returns, or raises (logged); the
\* challenge message is sent and awaited either way
JoinRestricted(i) ==
    /\ tasks[i].pc = "join_restrict"
    /\ \E ok \in BOOLEAN :
        LET t == tasks[i]
        IN  /\ perms' = IF ok
                        THEN [perms EXCEPT ![<<t.chat, t.user>>] = Restricted(0, "join")]
                        ELSE perms
            /\ tasks' = [tasks EXCEPT ![i].pc = "challenge"]
    /\ UNCHANGED <<now, ticks, WARN_LIMIT, warns, filters, settings, logs,
                   _flood_cache, challenges, floodCalls, probe>>

\* a challenge message: its chat, the id bound in callback_data, its text and
\* whether it still carries the inline keyboard
Challenge(chat_id, user_id) ==
    [chat |-> chat_id, bound |-> user_id, text |-> "challenge", markup |-> TRUE]

\* bot.py:200-201: the challenge send returns, or raises out of the handler
ChallengeSent(i) ==
    /\ tasks[i].pc = "challenge"
    /\ \E ok \in BOOLEAN :
        LET t == tasks[i]
        IN  /\ challenges' = IF ok
                             THEN Append(challenges, Challenge(t.chat, t.user))
                             ELSE challenges
            /\ tasks' = [tasks EXCEPT ![i].pc = IF ok THEN "done" ELSE "failed"]
    /\ UNCHANGED <<now, ticks, WARN_LIMIT, warns, filters, settings, logs,
                   _flood_cache, perms, floodCalls, probe>>

\* editMessageText without reply_markup: the text changes, the keyboard goes
Edited(m, text) == [challenges EXCEPT ![m] = [@ EXCEPT !.text = text, !.markup = FALSE]]

\* bot.py:204-206: user_id presses the button of challenge message m; the
\* handler awaits query.answer()
captcha_click(m, user_id) ==
    /\ challenges[m].markup
    /\ tasks' = Append(tasks,
           [NewTask("click", challenges[m].chat, user_id) EXCEPT
                !.target = challenges[m].bound, !.ch = m, !.pc = "answer"])
    /\ UNCHANGED <<now, ticks, WARN_LIMIT, warns, filters, settings, logs,
                   _flood_cache, perms, challenges, floodCalls, probe>>

\* bot.py:211: the responder is not the bound user
Mismatch(user_id, expected_id) == user_id # expected_id

\* bot.py:206-216: query.answer() returns, or raises out of the handler; a
\* mismatched responder gets the notice edit, the bound one the restrict call
ClickAnswered(i) ==
    /\ tasks[i].pc = "answer"
    /\ \E ok \in BOOLEAN :
        tasks' = [tasks EXCEPT ![i].pc =
                      IF ~ok THEN "failed"
                      ELSE IF Mismatch(tasks[i].user, tasks[i].target) THEN "reject"
                      ELSE "lift"]
    /\ UNCHANGED <<now, ticks, WARN_LIMIT, warns, filters, settings, logs,
                   _flood_cache, perms, challenges, floodCalls, probe>>

\* bot.py:212-213: the notice edit returns, or raises out of the handler
RejectEdited(i) ==
    /\ tasks[i].pc = "reject"
    /\ \E ok \in BOOLEAN :
        /\ challenges' = IF ok THEN Edited(tasks[i].ch, "not_for_you") ELSE challenges
        /\ tasks' = [tasks EXCEPT ![i].pc = IF ok THEN "done" ELSE "failed"]
    /\ UNCHANGED <<now, ticks, WARN_LIMIT, warns, filters, settings, logs,
                   _flood_cache, perms, floodCalls, probe>>

\* bot.py:216-219: the lifting restrict call returns and the confirmation
\* edit is awaited, or it raises out of the handler
LiftReturned(i) ==
    /\ tasks[i].pc = "lift"
    /\ \E ok \in BOOLEAN :
        LET t == tasks[i]
        IN  /\ perms' = IF ok
                        THEN [perms EXCEPT ![<<t.chat, t.user>>] = VerifiedPermissions]
                        ELSE perms
            /\ tasks' = [tasks EXCEPT ![i].pc = IF ok THEN "confirm" ELSE "failed"]
    /\ UNCHANGED <<now, ticks, WARN_LIMIT, warns, filters, settings, logs,
                   _flood_cache, challenges, floodCalls, probe>>

\* bot.py:219-220: the confirmation edit returns and the verified row is
\* logged, or it raises out of the handler
ConfirmEdited(i) ==
    /\ tasks[i].pc = "confirm"
    /\ \E ok \in BOOLEAN :
        LET t == tasks[i]
        IN  /\ challenges' = IF ok THEN Edited(t.ch, "verified") ELSE challenges
            /\ logs' = IF ok
                       THEN log_action(t.chat, t.user, "verified",
                                       Reason("captcha", NoText), i)
                       ELSE logs
            /\ tasks' = [tasks EXCEPT ![i].pc = IF ok THEN "done" ELSE "failed"]
    /\ UNCHANGED <<now, ticks, WARN_LIMIT, warns, filters, settings,
                   _flood_cache, perms, floodCalls, probe>>

(***************************************************************************)
(* The clock, and check_flood called on its own.                           *)
(***************************************************************************)
Tick(d) ==
    /\ now' = now + d
    /\ ticks' = ticks + 1
    /\ UNCHANGED <<WARN_LIMIT, warns, filters, settings, logs, _flood_cache,
                   perms, challenges, tasks, floodCalls, probe>>

CheckFlood(chat_id, user_id, limit) ==
    LET f == check_flood(chat_id, user_id, limit)
    IN  /\ _flood_cache' = f.cache
        /\ floodCalls' = RecordCall(chat_id, user_id)
        /\ probe' = [key |-> <<chat_id, user_id>>, t |-> now, limit |-> limit,
                     ret |-> f.ret, n |-> probe.n + 1]
        /\ UNCHANGED <<now, ticks, WARN_LIMIT, warns, filters, settings, logs,
                       perms, challenges, tasks>>

(***************************************************************************)
(* FloodSpec: check_flood called at non-decreasing times.                  *)
(***************************************************************************)
FloodKey == <<1, 2>>
FloodLimits == {1, 2, 5}
TickSteps == {1, 6, 8}

\* how many times check_flood has been called for the key
CallsOf(key) == IF key \in DOMAIN floodCalls THEN Len(floodCalls[key]) ELSE 0

FloodCall ==
    /\ CallsOf(FloodKey) < MaxCalls
    /\ \E limit \in FloodLimits : CheckFlood(FloodKey[1], FloodKey[2], limit)

FloodTick == ticks < MaxTicks /\ \E d \in TickSteps : Tick(d)

FloodNext == FloodCall \/ FloodTick

FloodSpec == Init /\ [][FloodNext]_vars

\* the times of the calls of check_flood for the key of the last direct call
ProbeCalls == floodCalls[probe.key]

\* calls made less than 7 seconds before the last direct call, itself counted
ProbeRecent == {j \in DOMAIN ProbeCalls : probe.t - ProbeCalls[j] < 7}

\* C5: check_flood returns true iff the calls for the key made less than 7
\* seconds before the present call, the present call counted, exceed limit;
\* with limit 5 the 6th of 6 calls within 1 second returns true, and no call
\* of a series spaced 8 seconds or more apart returns true.
C5_FloodIffOverLimit ==
    probe.n > 0 =>
        /\ probe.ret <=> (Cardinality(ProbeRecent) > probe.limit)
        /\ (/\ probe.limit = 5
            /\ Len(ProbeCalls) = 6
            /\ ProbeCalls[6] - ProbeCalls[1] <= 1) => probe.ret
        /\ (/\ probe.limit = 5
            /\ \A j \in 2..Len(ProbeCalls) : ProbeCalls[j] - ProbeCalls[j - 1] >= 8)
           => ~probe.ret

\* six calls for one key within one second, limit 5: the sixth returns true
C5_Witness ==
    /\ probe.limit = 5
    /\ Len(ProbeCalls) = 6
    /\ ProbeCalls[6] - ProbeCalls[1] = 1
    /\ probe.ret

\* five calls for one key spaced 8 seconds apart, limit 5: the fifth returns false
C5_WitnessSpaced ==
    /\ probe.limit = 5
    /\ Len(ProbeCalls) = 5
    /\ \A j \in 2..5 : ProbeCalls[j] - ProbeCalls[j - 1] = 8
    /\ ~probe.ret

(***************************************************************************)
(* WarnSpec, SeqSpec: /warn and /unwarn with a fixed warn limit, handled    *)
(* concurrently (WarnSpec) or one update at a time (SeqSpec).              *)
(***************************************************************************)
Invokers == {1, 2}
Targets == {2, 3}
Sources == {"reply", "id", "bad", "none"}
AdminReason == Reason("manual", NoText)

\* the configured limit (bot.py:25) is any positive number up to MaxLimit
LimitInit ==
    /\ now = 0
    /\ WARN_LIMIT \in 1..MaxLimit
    /\ warns = Empty
    /\ filters = << >>
    /\ settings = Empty
    /\ logs = << >>
    /\ _flood_cache = Empty
    /\ perms = [k \in Keys |-> FullPermissions]
    /\ challenges = << >>
    /\ tasks = << >>
    /\ floodCalls = Empty
    /\ probe = [key |-> <<0, 0>>, t |-> 0, limit |-> 0, ret |-> FALSE, n |-> 0]
    /\ ticks = 0

WarnCommand ==
    /\ Len(tasks) < MaxEvents
    /\ \E u \in Invokers, src \in Sources, target \in Targets :
            warn_cmd(1, u, src, target, AdminReason)

UnwarnCommand ==
    /\ Len(tasks) < MaxEvents
    /\ \E u \in Invokers, src \in Sources, target \in Targets :
            unwarn_cmd(1, u, src, target)

WarnSentStep == \E i \in DOMAIN tasks : WarnSent(i)
MuteRestrictedStep == \E i \in DOMAIN tasks : MuteRestricted(i)
MuteAnnouncedStep == \E i \in DOMAIN tasks : MuteAnnounced(i)
RepliedStep == \E i \in DOMAIN tasks : Replied(i)

WarnNext ==
    \/ WarnCommand
    \/ UnwarnCommand
    \/ WarnSentStep
    \/ MuteRestrictedStep
    \/ MuteAnnouncedStep
    \/ RepliedStep

WarnSpec == LimitInit /\ [][WarnNext]_vars

SeqWarnCommand == Idle /\ WarnCommand
SeqUnwarnCommand == Idle /\ UnwarnCommand

SeqNext ==
    \/ SeqWarnCommand
    \/ SeqUnwarnCommand
    \/ WarnSentStep
    \/ MuteRestrictedStep
    \/ MuteAnnouncedStep
    \/ RepliedStep

SeqSpec == LimitInit /\ [][SeqNext]_vars

\* the (chat, user) an invocation of warn_user or reset_warn is about
KeyOf(t) == <<t.chat, t.target>>

\* the invocations that have run warn_user's increment for the key
Incremented(key) == {i \in DOMAIN tasks : tasks[i].incremented /\ KeyOf(tasks[i]) = key}

\* the invocation has passed the escalation test of bot.py:300
PastTest(t) == t.incremented /\ t.pc # "send"

\* C1: warn_user invocations handled one after the other, WARN_LIMIT fixed
\* and >= 1: an invocation issues the mute (restrict, expiry 3600 seconds
\* after the call) iff the count it incremented to equals WARN_LIMIT, an
\* accepted restrict leaves the member muted until then, and when the
\* invocation has finished the stored count of its key is 0.
C1_MuteIffAtLimit ==
    \A i \in DOMAIN tasks :
        LET t == tasks[i]
        IN  PastTest(t) =>
              /\ t.muteCalled <=> (t.count = WARN_LIMIT)
              /\ t.muteCalled =>
                    /\ t.muteUntil - 3600 >= t.ts
                    /\ t.muteUntil - 3600 <= now
              /\ (t.muteCalled /\ Finished(t) /\ i = Len(tasks)) =>
                    /\ get_warn_count(t.chat, t.target) = 0
                    /\ t.muteOk =>
                          /\ ~perms[KeyOf(t)].can_send_messages
                          /\ perms[KeyOf(t)].until_date = t.muteUntil

\* an invocation that counted up to a limit of 3, muted the member and finished
C1_Witness ==
    \E i \in DOMAIN tasks :
        /\ i = Len(tasks)
        /\ tasks[i].pc = "done"
        /\ tasks[i].count = 3
        /\ WARN_LIMIT = 3
        /\ tasks[i].muteOk
        /\ KeyOf(tasks[i]) \notin DOMAIN warns

\* C2 (as claimed): whatever the interleaving, no two invocations apply a
\* mute for one crossing of WARN_LIMIT, i.e. for increments of one key made
\* with no reset between them.
C2_OneMutePerCrossing ==
    \A i, j \in DOMAIN tasks :
        (/\ i # j
         /\ tasks[i].muteOk /\ tasks[j].muteOk
         /\ KeyOf(tasks[i]) = KeyOf(tasks[j]))
        => tasks[i].epoch # tasks[j].epoch

\* C3: the increment is atomic: no two increments of a key made with no
\* reset between them read the same count, and the stored count is the
\* number of increments since the last reset (none lost, none overwritten).
C3_AtomicIncrement ==
    \A key \in Keys :
        /\ \A i, j \in Incremented(key) :
              (i # j /\ tasks[i].epoch = tasks[j].epoch)
              => tasks[i].count # tasks[j].count
        /\ get_warn_count(key[1], key[2]) =
              Cardinality({i \in Incremented(key) : tasks[i].epoch = Resets(key)})

\* two invocations for one key in progress at once, after a reset of the key
C3_Witness ==
    \E i, j \in DOMAIN tasks :
        /\ i # j
        /\ KeyOf(tasks[i]) = KeyOf(tasks[j])
        /\ tasks[i].pc = "send" /\ tasks[j].pc = "send"
        /\ tasks[i].count = 1 /\ tasks[j].count = 2
        /\ Resets(KeyOf(tasks[i])) = 1

\* no reset of the key has run and no invocation has issued a mute for it
NoMuteNoReset(key) ==
    /\ Resets(key) = 0
    /\ \A i \in DOMAIN tasks : KeyOf(tasks[i]) = key => ~tasks[i].muteCalled

\* C4: from no record, with no mute and no unwarn, the stored count of a key
\* is the number k of warn_user invocations made for it; a step without a
\* reset raises the count by exactly 1 when an invocation increments and
\* leaves it alone otherwise.
C4_CountIsInvocations ==
    /\ [](\A key \in Keys :
            NoMuteNoReset(key) =>
                get_warn_count(key[1], key[2]) = Cardinality(Incremented(key)))
    /\ [][\A key \in Keys :
            Resets(key)' = Resets(key) =>
                get_warn_count(key[1], key[2])' =
                    get_warn_count(key[1], key[2]) +
                    Cardinality(Incremented(key)' \ Incremented(key))]_vars

\* two invocations for one key, below a limit of 3, both finished: count 2
C4_Witness ==
    \E key \in Keys :
        /\ WARN_LIMIT = 3
        /\ NoMuteNoReset(key)
        /\ Cardinality(Incremented(key)) = 2
        /\ get_warn_count(key[1], key[2]) = 2
        /\ Idle

(***************************************************************************)
(* BurstSpec: one user floods a chat with default settings in three bursts *)
(* of flood_limit + 1 messages, each burst within 2 seconds, the bursts 7  *)
(* seconds apart; updates are handled one at a time.                       *)
(***************************************************************************)
BurstKey == <<1, 2>>
BurstSize == DefaultSettings.flood_limit + 1

\* position (1..BurstSize) of message n in its burst, and the burst (0, 1, 2)
BurstPos(n) == ((n - 1) % BurstSize) + 1
BurstOf(n) == (n - 1) \div BurstSize

\* the next message opens a burst
OpensBurst == Len(tasks) % BurstSize = 0

\* arrival time of the first message of the burst in progress
BurstStart == tasks[Len(tasks) - (Len(tasks) % BurstSize) + 1].ts

BurstSend ==
    /\ Idle
    /\ Len(tasks) < 3 * BurstSize
    /\ (OpensBurst /\ tasks # << >>) => now - tasks[Len(tasks)].ts >= FLOOD_WINDOW
    /\ message_filter(TRUE, BurstKey[1], BurstKey[2], TextHi)

\* inside a burst the clock stays within 2 seconds of its first message
BurstTick ==
    /\ Idle
    /\ ~OpensBurst
    /\ now + 2 - BurstStart <= 2
    /\ Tick(2)

\* between two bursts the window of the rate tracker runs out
BurstGap ==
    /\ Idle
    /\ OpensBurst /\ tasks # << >>
    /\ now - tasks[Len(tasks)].ts < FLOOD_WINDOW
    /\ Tick(FLOOD_WINDOW)

MessageDeletedStep == \E i \in DOMAIN tasks : MessageDeleted(i)

BurstNext ==
    \/ BurstSend
    \/ BurstTick
    \/ BurstGap
    \/ MessageDeletedStep
    \/ WarnSentStep
    \/ MuteRestrictedStep
    \/ MuteAnnouncedStep

BurstSpec == Init /\ [][BurstNext]_vars

\* the invocation has logged a deletion for the reason
LoggedDeletion(i, tag) ==
    \E k \in DOMAIN logs :
        /\ logs[k].by = i
        /\ logs[k].action = "deleted"
        /\ logs[k].reason.tag = tag

\* C6: flood_limit 5, WARN_LIMIT 3: of each burst of 6 messages within 2
\* seconds, messages 1 to 5 stand and message 6 is taken down (delete call,
\* audit row "flood") and counted; the count is 1 after the first burst, 2
\* after the second, and the third, reaching 3, issues a mute of 3600
\* seconds and leaves the stored count at 0.
C6_ThreeBursts ==
    \A n \in DOMAIN tasks :
        LET t == tasks[n]
            later == {m \in DOMAIN tasks : m > n /\ tasks[m].incremented}
        IN  /\ WARN_LIMIT = 3 /\ get_setting(t.chat).flood_limit = 5
            /\ BurstPos(n) <= 5 =>
                  /\ t.pc = "done" /\ t.viol = NoReason
                  /\ ~t.deleted /\ ~t.incremented
                  /\ ~LoggedDeletion(n, "flood")
            /\ BurstPos(n) = 6 =>
                  /\ t.viol = Reason("flood", NoText)
                  /\ t.incremented =>
                        /\ LoggedDeletion(n, "flood")
                        /\ t.count = BurstOf(n) + 1
                        /\ t.reason = Reason("Flooding", NoText)
                  /\ PastTest(t) =>
                        /\ t.muteCalled <=> (BurstOf(n) = 2)
                        /\ t.muteCalled =>
                              /\ t.muteUntil - 3600 >= t.ts
                              /\ t.muteUntil - 3600 <= now
                  /\ (Finished(t) /\ later = {}) =>
                        /\ get_warn_count(t.chat, t.user) =
                              IF BurstOf(n) = 2 THEN 0 ELSE BurstOf(n) + 1
                        /\ t.muteOk =>
                              perms[<<t.chat, t.user>>] = Restricted(t.muteUntil, "mute")

\* the three bursts are over: messages 6, 12 and 18 were deleted, the others
\* stand, the member is muted for 3600 seconds and has no warn record
C6_Witness ==
    /\ Len(tasks) = 18
    /\ Idle
    /\ \A n \in DOMAIN tasks : tasks[n].deleted <=> (n \in {6, 12, 18})
    /\ tasks[6].count = 1 /\ tasks[12].count = 2 /\ tasks[18].count = 3
    /\ tasks[18].muteOk
    /\ perms[BurstKey].until_date = tasks[18].ts + 3600
    /\ ~perms[BurstKey].can_send_messages
    /\ BurstKey \notin DOMAIN warns
    /\ tasks[6].ts - tasks[1].ts = 2

(***************************************************************************)
(* FilterSpec: messages and filter commands in one chat, handled one       *)
(* update at a time, from each settings row and warn limit the stores and  *)
(* the environment may hold at start.                                      *)
(***************************************************************************)
FilterChat == {1}
Senders == {1, 2, 4}
Texts == {TextHi, TextUrl, TextScam, TextUrlScam, TextUrlSpam}
FilterWords == {WordSpam, NoText}

SettingsRow(block_links, flood_limit) ==
    [antispam |-> 1, block_links |-> block_links, flood_limit |-> flood_limit]

\* no settings row yet, or a row stored by an earlier run
InitSettings ==
    {Empty} \cup {[c \in FilterChat |-> SettingsRow(b, 1)] : b \in {0, 1}}

FilterInit ==
    /\ now = 0
    /\ WARN_LIMIT \in {1, MaxLimit}
    /\ warns = Empty
    /\ filters = << >>
    /\ settings \in InitSettings
    /\ logs = << >>
    /\ _flood_cache = Empty
    /\ perms = [k \in Keys |-> FullPermissions]
    /\ challenges = << >>
    /\ tasks = << >>
    /\ floodCalls = Empty
    /\ probe = [key |-> <<0, 0>>, t |-> 0, limit |-> 0, ret |-> FALSE, n |-> 0]
    /\ ticks = 0

FilterMessage ==
    /\ Idle
    /\ Len(tasks) < MaxMessages
    /\ \E c \in FilterChat, u \in Senders, text \in Texts :
            message_filter(TRUE, c, u, text)

\* an update that carries no message (bot.py:231)
FilterNoMessage ==
    /\ Idle
    /\ Len(tasks) < MaxMessages
    /\ \E c \in FilterChat : message_filter(FALSE, c, 2, NoText)

AddFilterCommand ==
    /\ Idle
    /\ Len(tasks) < MaxMessages
    /\ \E c \in FilterChat, u \in Invokers, word \in FilterWords :
            addfilter_cmd(c, u, word)

DelFilterCommand ==
    /\ Idle
    /\ Len(tasks) < MaxMessages
    /\ \E c \in FilterChat, u \in Invokers, word \in FilterWords :
            delfilter_cmd(c, u, word)

FilterNext ==
    \/ FilterMessage
    \/ FilterNoMessage
    \/ AddFilterCommand
    \/ DelFilterCommand
    \/ MessageDeletedStep
    \/ WarnSentStep
    \/ MuteRestrictedStep
    \/ MuteAnnouncedStep
    \/ RepliedStep

FilterSpec == FilterInit /\ [][FilterNext]_vars

\* the audit rows invocation i wrote for deleting its message
Deletions(i) == {k \in DOMAIN logs : logs[k].by = i /\ logs[k].action = "deleted"}

\* the text, lowercased, holds a word of the built-in list, of the chat's
\* filter rows or of the words admins add
HasBannedWord(chat_id, raw) ==
    \E w \in (Range(DEFAULT_BADWORDS) \cup Range(get_filters(chat_id))
              \cup FilterWords) \ {NoText} :
        Contains(lower(raw), w)

\* a message handled by message_filter that did not trip the flood check,
\* holds a URL and a banned word, in a chat with block_links enabled
LinkAndWord(t) ==
    /\ t.kind = "message"
    /\ t.text # NoText
    /\ t.viol.tag # "flood"
    /\ URL_REGEX(t.text)
    /\ HasBannedWord(t.chat, t.text)
    /\ get_setting(t.chat).block_links # 0

\* the record is the link violation and nothing else
RecordedAsLink(i) ==
    LET t == tasks[i]
    IN  /\ t.viol = Reason("link", NoText)
        /\ \A k \in Deletions(i) : logs[k].reason = Reason("link", NoText)
        /\ Cardinality(Deletions(i)) = IF t.pc = "delete" THEN 0 ELSE 1
        /\ t.incremented => t.reason = Reason("Posting links", NoText)

\* C7 (as claimed): every such message is recorded with reason "link", once.
C7_LinkWinsForEverySender ==
    \A i \in DOMAIN tasks : LinkAndWord(tasks[i]) => RecordedAsLink(i)

\* C7 (amended): every such message from a sender that is neither a bot nor
\* in ADMIN_IDS is recorded with reason "link" and not the banned-word
\* reason, and exactly one violation is recorded for it.
C7_LinkWins ==
    \A i \in DOMAIN tasks :
        (/\ LinkAndWord(tasks[i])
         /\ tasks[i].user \notin ADMIN_IDS
         /\ tasks[i].user \notin Bots)
        => RecordedAsLink(i)

\* a member's message with a URL and the built-in word "scam", logged as link
C7_Witness ==
    \E i \in DOMAIN tasks :
        /\ LinkAndWord(tasks[i])
        /\ tasks[i].user = 2
        /\ tasks[i].text = TextUrlScam
        /\ Finished(tasks[i])
        /\ Cardinality(Deletions(i)) = 1

\* C8: a message from a sender in ADMIN_IDS whose text holds a URL is never
\* a link violation, whatever block_links and the filter words are: no audit
\* row with reason "link" and no warn_user call with reason "Posting links".
C8_AdminLinkExempt ==
    \A i \in DOMAIN tasks :
        LET t == tasks[i]
        IN  (t.kind = "message" /\ t.user \in ADMIN_IDS /\ URL_REGEX(t.text)) =>
              /\ t.viol.tag # "link"
              /\ t.reason.tag # "Posting links"
              /\ \A k \in DOMAIN logs : logs[k].by = i => logs[k].reason.tag # "link"

\* an admin's URL message in a chat that blocks links, left alone
C8_Witness ==
    \E i \in DOMAIN tasks :
        /\ tasks[i].kind = "message"
        /\ tasks[i].user \in ADMIN_IDS
        /\ tasks[i].text = TextUrl
        /\ get_setting(tasks[i].chat).block_links = 1
        /\ tasks[i].pc = "done"
        /\ tasks[i].viol = NoReason

(***************************************************************************)
(* JoinSpec: member-status changes and button presses, handled             *)
(* concurrently.                                                           *)
(***************************************************************************)
Joiners == {2, 3}

JoinEvent ==
    /\ Len(tasks) < MaxEvents
    /\ \E c \in Chats, u \in Joiners, old \in Statuses, new \in Statuses :
            chat_member_handler(c, u, old, new)

ButtonPress ==
    /\ Len(tasks) < MaxEvents
    /\ \E m \in DOMAIN challenges, u \in Joiners : captcha_click(m, u)

JoinRestrictedStep == \E i \in DOMAIN tasks : JoinRestricted(i)
ChallengeSentStep == \E i \in DOMAIN tasks : ChallengeSent(i)
ClickAnsweredStep == \E i \in DOMAIN tasks : ClickAnswered(i)
RejectEditedStep == \E i \in DOMAIN tasks : RejectEdited(i)
LiftReturnedStep == \E i \in DOMAIN tasks : LiftReturned(i)
ConfirmEditedStep == \E i \in DOMAIN tasks : ConfirmEdited(i)

JoinNext ==
    \/ JoinEvent
    \/ ButtonPress
    \/ JoinRestrictedStep
    \/ ChallengeSentStep
    \/ ClickAnsweredStep
    \/ RejectEditedStep
    \/ LiftReturnedStep
    \/ ConfirmEditedStep

JoinSpec == Init /\ [][JoinNext]_vars

\* invocation i, a button press by someone other than the bound user, takes
\* a step
MismatchedStep(i) ==
    /\ tasks[i].kind = "click"
    /\ tasks[i].user # tasks[i].target
    /\ tasks'[i] # tasks[i]

\* C9 (as claimed): a response from a user other than the bound one changes
\* no state: no permission changes, no audit row is appended, and the
\* challenge message stays as it was, pending and answerable.
C9_MismatchChangesNothing ==
    [][\A i \in DOMAIN tasks :
          MismatchedStep(i) =>
              /\ perms' = perms
              /\ logs' = logs
              /\ challenges' = challenges]_vars

\* invocation i, a button press by the bound user, takes a step
BoundStep(i) ==
    /\ tasks[i].kind = "click"
    /\ tasks[i].user = tasks[i].target
    /\ tasks'[i] # tasks[i]

\* the audit rows tagged verified
VerifiedRows == {k \in DOMAIN logs : logs[k].action = "verified"}

\* C10: a response from the bound user first grants that user the four
\* capabilities in the chat of the challenge message (when the platform
\* accepts the call) and only then, in one step, edits the challenge to the
\* confirmation and appends the "verified" row; a verified row is written by
\* no other path and never before the grant.
C10_VerifyGrantsThenLogs ==
    /\ [](\A k \in VerifiedRows :
            LET t == tasks[logs[k].by]
            IN  /\ t.kind = "click" /\ t.user = t.target /\ t.pc = "done"
                /\ logs[k].user_id = t.user
                /\ logs[k].chat_id = challenges[t.ch].chat)
    /\ [][\A i \in DOMAIN tasks :
            BoundStep(i) =>
              LET t == tasks[i]
                  key == <<challenges[t.ch].chat, t.user>>
              IN  /\ (t.pc = "lift" /\ tasks'[i].pc = "confirm") =>
                        /\ perms'[key].can_send_messages
                        /\ perms'[key].can_send_media_messages
                        /\ perms'[key].can_add_web_page_previews
                        /\ perms'[key].can_send_other_messages
                        /\ logs' = logs
                  /\ (tasks'[i].pc = "done") =>
                        /\ t.pc = "confirm"
                        /\ challenges'[t.ch].text = "verified"
                        /\ Len(logs') = Len(logs) + 1
                        /\ logs'[Len(logs')].action = "verified"
                        /\ logs'[Len(logs')].by = i
                  /\ (tasks'[i].pc \notin {"confirm", "done"}) =>
                        /\ perms' = perms /\ logs' = logs]_vars

\* a joiner was restricted, pressed the button of the challenge and is
\* verified: the four capabilities are back and the verified row is logged
C10_Witness ==
    \E i, j \in DOMAIN tasks :
        /\ tasks[j].kind = "join" /\ tasks[j].pc = "done"
        /\ tasks[i].kind = "click" /\ tasks[i].pc = "done"
        /\ tasks[i].user = tasks[j].user /\ tasks[i].chat = tasks[j].chat
        /\ tasks[i].user = tasks[i].target
        /\ perms[<<tasks[i].chat, tasks[i].user>>] = FullPermissions
        /\ \E k \in VerifiedRows : logs[k].by = i
        /\ challenges[tasks[i].ch].text = "verified"

(***************************************************************************)
(* /unwarn (bot.py:361-376) under WarnSpec.                                *)
(***************************************************************************)
\* the step dispatches an /unwarn that runs reset_warn for the key
UnwarnStep(key) ==
    /\ Len(tasks') = Len(tasks) + 1
    /\ tasks'[Len(tasks')].kind = "unwarn"
    /\ tasks'[Len(tasks')].didReset
    /\ KeyOf(tasks'[Len(tasks')]) = key

\* the update handled last was an /unwarn that ran reset_warn for the key
JustUnwarned(key) ==
    /\ tasks # << >>
    /\ tasks[Len(tasks)].kind = "unwarn"
    /\ tasks[Len(tasks)].didReset
    /\ KeyOf(tasks[Len(tasks)]) = key

\* everything the program and the platform store
Stored == <<WARN_LIMIT, warns, filters, settings, logs, _flood_cache, perms, challenges>>

\* C11: an /unwarn for a key whose count is 0 takes the same path as any
\* other (reset_warn, then the reply), raises nothing of its own and leaves
\* every warn record and all other stored state as it was; so does an
\* /unwarn that follows an /unwarn for the same key.
C11_UnwarnIdempotent ==
    [][\A key \in Keys :
          UnwarnStep(key) =>
              /\ tasks'[Len(tasks')].pc = "reply"
              /\ \A k \in DOMAIN warns' : k # key /\ k \in DOMAIN warns /\ warns'[k] = warns[k]
              /\ (get_warn_count(key[1], key[2]) = 0 \/ JustUnwarned(key)) =>
                    Stored' = Stored]_vars

\* a member warned once, then two /unwarn for the member, all handled
C11_Witness ==
    /\ Len(tasks) = 3
    /\ Idle
    /\ tasks[1].kind = "warn" /\ tasks[1].incremented /\ tasks[1].count = 1
    /\ ~tasks[1].muteCalled
    /\ tasks[2].kind = "unwarn" /\ tasks[2].didReset /\ tasks[2].pc = "done"
    /\ tasks[3].kind = "unwarn" /\ tasks[3].didReset /\ tasks[3].pc = "done"
    /\ KeyOf(tasks[1]) = KeyOf(tasks[2]) /\ KeyOf(tasks[2]) = KeyOf(tasks[3])
    /\ warns = Empty

(***************************************************************************)
(* Platform failures in the core handlers, under JoinSpec.                 *)
(***************************************************************************)
\* the handlers of the core: message_filter, warn_user (reached from a
\* message or from /warn), chat_member_handler and captcha_click
CoreKinds == {"message", "warn", "join", "click"}

\* C12 (as claimed): no failure of a platform call leaves a core handler as
\* an error: no invocation of a core handler ends by raising.
C12_FailuresCaught ==
    \A i \in DOMAIN tasks :
        tasks[i].kind \in CoreKinds => tasks[i].pc # "failed"

(***************************************************************************)
(* AdminSpec: the six administrative commands, from an admin and from a    *)
(* plain member, handled concurrently.                                     *)
(***************************************************************************)
AdminKinds == {"addfilter", "delfilter", "listfilters", "warn", "unwarn", "setwarnlimit"}
LimitArgs == {"int", "bad", "none"}
LimitValues == {0, 1, 2}
AdminTargets == {3}

AdminWarn ==
    /\ Len(tasks) < MaxEvents
    /\ \E u \in Invokers, src \in Sources, target \in AdminTargets :
            warn_cmd(1, u, src, target, AdminReason)

AdminUnwarn ==
    /\ Len(tasks) < MaxEvents
    /\ \E u \in Invokers, src \in Sources, target \in AdminTargets :
            unwarn_cmd(1, u, src, target)

AdminSetWarnLimit ==
    /\ Len(tasks) < MaxEvents
    /\ \E u \in Invokers, arg \in LimitArgs, n \in LimitValues :
            set_warn_limit_cmd(1, u, arg, n)

AdminAddFilter ==
    /\ Len(tasks) < MaxEvents
    /\ \E u \in Invokers, word \in FilterWords : addfilter_cmd(1, u, word)

AdminDelFilter ==
    /\ Len(tasks) < MaxEvents
    /\ \E u \in Invokers, word \in FilterWords : delfilter_cmd(1, u, word)

AdminListFilters ==
    /\ Len(tasks) < MaxEvents
    /\ \E u \in Invokers : listfilters_cmd(1, u)

ReplyTriedStep == \E i \in DOMAIN tasks : ReplyTried(i)

AdminNext ==
    \/ AdminWarn
    \/ AdminUnwarn
    \/ AdminSetWarnLimit
    \/ AdminAddFilter
    \/ AdminDelFilter
    \/ AdminListFilters
    \/ WarnSentStep
    \/ MuteRestrictedStep
    \/ MuteAnnouncedStep
    \/ RepliedStep
    \/ ReplyTriedStep

AdminSpec == LimitInit /\ [][AdminNext]_vars

\* invocation i is an administrative command from a user not in ADMIN_IDS
Unauthorized(t) == t.kind \in AdminKinds /\ t.user \notin ADMIN_IDS

\* C13: an administrative command from a user not in ADMIN_IDS awaits the
\* rejection notice and nothing else, and no step of its handler, from the
\* dispatch to the end of the reply, changes warn counts, filter words,
\* settings, WARN_LIMIT, the audit log or anything else that is stored.
C13_UnauthorizedChangesNothing ==
    [][/\ (Len(tasks') = Len(tasks) + 1 /\ Unauthorized(tasks'[Len(tasks')])) =>
            /\ tasks'[Len(tasks')].pc = "reply"
            /\ tasks'[Len(tasks')].reply = "unauthorized"
            /\ ~tasks'[Len(tasks')].incremented
            /\ ~tasks'[Len(tasks')].didReset
            /\ Stored' = Stored
       /\ \A i \in DOMAIN tasks :
            (Unauthorized(tasks[i]) /\ tasks'[i] # tasks[i]) =>
                /\ tasks[i].pc = "reply"
                /\ tasks'[i].pc \in {"done", "failed"}
                /\ Stored' = Stored]_vars

\* an admin has added a filter word, warned a member and changed the limit;
\* then a plain member's command was rejected and its handler has finished
C13_Witness ==
    \E i \in DOMAIN tasks :
        /\ Unauthorized(tasks[i])
        /\ tasks[i].pc = "done"
        /\ tasks[i].reply = "unauthorized"
        /\ i = Len(tasks)
        /\ warns # Empty /\ filters # << >> /\ logs # << >>

(***************************************************************************)
(* CapsSpec: messages in upper case, handled one update at a time.         *)
(***************************************************************************)
\* 26 capitals; 25 capitals and a small letter; 400 capitals
TextCaps == [i \in 1..26 |-> "A"]
TextCaps25 == [i \in 1..26 |-> IF i = 26 THEN "b" ELSE "A"]
TextLong == [i \in 1..400 |-> "A"]
CapsTexts == {TextHi, TextCaps, TextCaps25, TextLong, TextScam}

CapsMessage ==
    /\ Idle
    /\ Len(tasks) < MaxMessages
    /\ \E c \in FilterChat, u \in Senders, text \in CapsTexts :
            message_filter(TRUE, c, u, text)

CapsNext ==
    \/ CapsMessage
    \/ MessageDeletedStep
    \/ WarnSentStep
    \/ MuteRestrictedStep
    \/ MuteAnnouncedStep

CapsSpec == FilterInit /\ [][CapsNext]_vars

\* a message message_filter has run its rules on, which tripped none of the
\* flood check, the link rule and the banned-word rule
PastWordRule(t) ==
    /\ t.kind = "message"
    /\ t.user \notin Bots
    /\ t.viol.tag \notin {"flood", "link", "badword"}

\* C14 (as claimed): such a message is recorded as caps spam iff its raw
\* text has more than 25 uppercase characters and fewer than 400 characters.
C14_CapsOnRawText ==
    \A i \in DOMAIN tasks :
        PastWordRule(tasks[i]) =>
            (tasks[i].viol.tag = "caps spam"
                <=> (UpperCount(tasks[i].text) > 25 /\ Len(tasks[i].text) < 400))

(***************************************************************************)
(* Resets of the warn count, under WarnSpec.                               *)
(***************************************************************************)
\* the stored count of the key, 0 when there is no row
StoredCount(w, key) == IF key \in DOMAIN w THEN w[key] ELSE 0

\* the step takes the stored count of the key from a positive value to 0
CountZeroed(key) == StoredCount(warns, key) > 0 /\ StoredCount(warns', key) = 0

\* invocation i runs reset_warn for the key in the step
ResetsInStep(i, key) ==
    /\ KeyOf(tasks'[i]) = key
    /\ tasks'[i].didReset
    /\ (i \in DOMAIN tasks => ~tasks[i].didReset)

\* C15 (as claimed): the stored count is never negative, and it goes from a
\* positive value to 0 only by the reset of an invocation that has actually
\* applied a mute to the user, or by an admin /unwarn for the user.
C15_ResetOnlyWithMute ==
    /\ [](\A key \in Keys : StoredCount(warns, key) >= 0)
    /\ [][\A key \in Keys :
            CountZeroed(key) =>
                \E i \in DOMAIN tasks' :
                    /\ ResetsInStep(i, key)
                    /\ tasks'[i].kind = "unwarn" \/ tasks'[i].muteOk]_vars

\* C15 (amended): the stored count is never negative, and it goes from a
\* positive value to 0 exactly in a step in which an invocation of warn_user
\* that has issued the mute call runs its reset, the call accepted or not, or
\* an admin /unwarn is executed for the user.
C15_ResetOnMuteTrigger ==
    /\ [](\A key \in Keys : StoredCount(warns, key) >= 0)
    /\ [][\A key \in Keys :
            CountZeroed(key) <=>
                /\ StoredCount(warns, key) > 0
                /\ \E i \in DOMAIN tasks' :
                      /\ ResetsInStep(i, key)
                      /\ tasks'[i].kind = "unwarn" \/ tasks'[i].muteCalled]_vars

\* a warning reached the limit, the platform refused the mute, and the
\* record was reset all the same
C15_Witness ==
    \E i \in DOMAIN tasks :
        /\ tasks[i].kind = "warn"
        /\ tasks[i].muteCalled /\ ~tasks[i].muteOk
        /\ tasks[i].didReset
        /\ tasks[i].count = 2
        /\ KeyOf(tasks[i]) \notin DOMAIN warns
        /\ perms[KeyOf(tasks[i])] = FullPermissions

(***************************************************************************)
(* Order of the checks of message_filter, under FilterSpec.                *)
(***************************************************************************)
\* the step dispatches a message with a text from a sender that is no bot
MessageStep ==
    /\ Len(tasks') = Len(tasks) + 1
    /\ tasks'[Len(tasks')].kind = "message"
    /\ tasks'[Len(tasks')].text # NoText
    /\ tasks'[Len(tasks')].user \notin Bots

\* earlier messages of the key that reached the flood check less than 7
\* seconds ago
RecentCalls(key) ==
    IF key \in DOMAIN floodCalls
    THEN {j \in DOMAIN floodCalls[key] : now - floodCalls[key][j] < 7}
    ELSE {}

\* the tag of the first of flood, link, banned word, caps the message trips
FirstTripped(chat_id, user_id, raw) ==
    IF Cardinality(RecentCalls(<<chat_id, user_id>>)) + 1 > get_setting(chat_id).flood_limit
    THEN "flood"
    ELSE IF /\ get_setting(chat_id).block_links # 0
            /\ URL_REGEX(raw)
            /\ user_id \notin ADMIN_IDS
    THEN "link"
    ELSE IF \E w \in Range(EffectiveFilters(chat_id)) \ {NoText} : Contains(lower(raw), w)
    THEN "badword"
    ELSE IF UpperCount(lower(raw)) > 25 /\ Len(raw) < 400
    THEN "caps spam"
    ELSE ""

\* the audit rows invocation i wrote for warning the sender
WarnRows(i) == {k \in DOMAIN logs : logs[k].by = i /\ logs[k].action = "warn"}

\* the invocations that run warn_user's increment in the step
IncrementsInStep ==
    {i \in DOMAIN tasks' :
        tasks'[i].incremented /\ (i \in DOMAIN tasks => ~tasks[i].incremented)}

\* C16: the verdict on a message is the first of flood, link, banned word
\* and caps that it trips, so a message that trips the flood check is
\* recorded as flood whatever its text holds; a message gets at most one
\* delete call and audit row, for that verdict alone, and at most one
\* increment of the ledger.
C16_FirstViolationOnly ==
    /\ [][MessageStep =>
            LET t == tasks'[Len(tasks')]
                tag == FirstTripped(t.chat, t.user, t.text)
            IN  /\ t.viol.tag = tag
                /\ t.pc = IF tag = "" THEN "done" ELSE "delete"]_vars
    /\ [](\A i \in DOMAIN tasks :
            tasks[i].kind = "message" =>
                /\ Cardinality(Deletions(i)) <= 1
                /\ Cardinality(WarnRows(i)) <= 1
                /\ \A k \in Deletions(i) : logs[k].reason = tasks[i].viol
                /\ \A k \in WarnRows(i) : logs[k].reason = WarnReason(tasks[i].viol)
                /\ tasks[i].incremented => Cardinality(Deletions(i)) = 1)
    /\ [][/\ Cardinality(IncrementsInStep) <= 1
          /\ \A key \in Keys :
                StoredCount(warns', key) > StoredCount(warns, key) =>
                    /\ StoredCount(warns', key) = StoredCount(warns, key) + 1
                    /\ \E i \in IncrementsInStep :
                          <<tasks'[i].chat, tasks'[i].user>> = key]_vars

\* a member's second message within the window, over a flood limit of 1,
\* holds a URL and a banned word: one deletion, for flood, and one increment
C16_Witness ==
    \E i \in DOMAIN tasks :
        /\ tasks[i].kind = "message"
        /\ tasks[i].text = TextUrlScam
        /\ tasks[i].user = 2
        /\ get_setting(tasks[i].chat).block_links = 1
        /\ tasks[i].viol = Reason("flood", NoText)
        /\ Finished(tasks[i])
        /\ Cardinality(Deletions(i)) = 1
        /\ Cardinality(WarnRows(i)) = 1
        /\ tasks[i].reason = Reason("Flooding", NoText)

(***************************************************************************)
(* The audit trail of joins, under JoinSpec.                               *)
(***************************************************************************)
\* invocation i handled a join to its end: the challenge it sent exists
JoinHandled(i) ==
    /\ tasks[i].kind = "join"
    /\ tasks[i].pc = "done"
    /\ \E m \in DOMAIN challenges :
          challenges[m].chat = tasks[i].chat /\ challenges[m].bound = tasks[i].user

\* C17 (as claimed): every join handled by chat_member_handler has left an
\* audit row tagged "join_restriction" for the joining (chat, user).
C17_JoinLogged ==
    \A i \in DOMAIN tasks :
        JoinHandled(i) =>
            \E k \in DOMAIN logs :
                /\ logs[k].action = "join_restriction"
                /\ logs[k].chat_id = tasks[i].chat
                /\ logs[k].user_id = tasks[i].user

(***************************************************************************)
(* The filter words of a chat, under FilterSpec.                           *)
(***************************************************************************)
\* the sequence holds no element twice
NoDuplicates(s) == \A i, j \in DOMAIN s : i # j => s[i] # s[j]

\* C18 (as claimed): get_filters(chat) never holds a word twice, whatever
\* was added and removed, and a removal leaves no row of the removed
\* (chat, word) behind.
C18_FilterSetSemantics ==
    /\ [](\A c \in Chats : NoDuplicates(get_filters(c)))
    /\ [][Len(filters') < Len(filters) =>
            \E row \in Range(filters) :
                /\ row \notin Range(filters')
                /\ filters' = SelectSeq(filters, LAMBDA r : r # row)]_vars

(***************************************************************************)
(* CrossSpec: check_flood called for several keys at non-decreasing times. *)
(***************************************************************************)
MaxCross == 4        \* direct check_flood calls in one behaviour of CrossSpec
CrossKeys == {<<1, 2>>, <<1, 3>>, <<2, 2>>}
CrossLimits == {1, 5}
CrossSteps == {3, 7}

CrossCall ==
    /\ probe.n < MaxCross
    /\ \E key \in CrossKeys, limit \in CrossLimits : CheckFlood(key[1], key[2], limit)

CrossTick == ticks < MaxTicks /\ \E d \in CrossSteps : Tick(d)

CrossNext == CrossCall \/ CrossTick

CrossSpec == Init /\ [][CrossNext]_vars

\* C19: a check_flood call for a key at time now leaves for that key only
\* timestamps t with now - t < 7, the last of them now itself, whatever it
\* returns, and leaves the windows stored for every other key as they were.
C19_WindowWithinHorizon ==
    [][probe'.n = probe.n + 1 =>
          LET key == probe'.key
              hits == _flood_cache'[key]
          IN  /\ key \in DOMAIN _flood_cache'
              /\ \A j \in DOMAIN hits : now - hits[j] < 7
              /\ hits # << >> /\ hits[Len(hits)] = now
              /\ DOMAIN _flood_cache' = DOMAIN _flood_cache \cup {key}
              /\ \A k \in DOMAIN _flood_cache :
                    k # key => _flood_cache'[k] = _flood_cache[k]]_vars

\* a call that returned true for one key, an older entry of its window
\* pruned, while another key still holds a timestamp beyond the horizon
C19_Witness ==
    \E k \in DOMAIN _flood_cache :
        /\ probe.n > 0 /\ probe.t = now /\ probe.ret
        /\ k # probe.key
        /\ \E j \in DOMAIN _flood_cache[k] : now - _flood_cache[k][j] >= 7
        /\ Len(_flood_cache[probe.key]) < Len(floodCalls[probe.key])

(***************************************************************************)
(* LiftSpec: joins, button presses and /warn in one behaviour, handled one *)
(* update at a time.                                                       *)
(***************************************************************************)
LiftJoinEvent == Idle /\ JoinEvent
LiftButtonPress == Idle /\ ButtonPress
LiftWarnCommand == Idle /\ WarnCommand

LiftNext ==
    \/ LiftJoinEvent
    \/ LiftButtonPress
    \/ LiftWarnCommand
    \/ JoinRestrictedStep
    \/ ChallengeSentStep
    \/ ClickAnsweredStep
    \/ RejectEditedStep
    \/ LiftReturnedStep
    \/ ConfirmEditedStep
    \/ WarnSentStep
    \/ MuteRestrictedStep
    \/ MuteAnnouncedStep
    \/ RepliedStep

LiftSpec == LimitInit /\ [][LiftNext]_vars

\* the member is muted by escalation and the mute has not run out
MutedByEscalation(key) ==
    /\ perms[key].cause = "mute"
    /\ ~perms[key].can_send_messages
    /\ now < perms[key].until_date

\* C20 (as claimed): no step of the program gives a member muted by
\* escalation the capability to send again before the mute has run out.
C20_MuteNotLifted ==
    [][\A key \in Keys :
          MutedByEscalation(key) => ~perms'[key].can_send_messages]_vars

====
